---- MODULE Spec2Model ----
(***************************************************************************)
(* Model of the agent coordination core of the website audit tool:        *)
(* BaseAgent.execute / revise, Orchestrator.run_phase / run_audit /       *)
(* run_revision_cycles, CritiqueAgent.run and the RevisionManager, with   *)
(* audit.run_audit_pipeline around them (SpecAudit), and of four pure     *)
(* functions: Orchestrator.synthesize_findings (SpecSynthesis), the       *)
(* heuristic fallback of ConversionAgent.run (SpecConversion),            *)
(* CritiqueAgent._critique_analysis (SpecCritique) and                    *)
(* Orchestrator.get_execution_order (SpecOrder).                          *)
(*                                                                         *)
(* Scheduling is asyncio's: a gather() puts its coroutines on the event   *)
(* loop's ready queue in list order, each runs up to its first            *)
(* suspension (the await of run()), and suspended run() calls finish in   *)
(* any order.                                                              *)
(***************************************************************************)
EXTENDS Integers, Sequences, FiniteSets, TLC

\* ---------------------------------------------------------------- bounds
\* largest revision budget (ContextStore.max_revisions) drawn in Init
MaxRevisionBudget == 2
\* most run() calls of one audit that raise or return a sub-standard score
MaxFaults == 1
\* most request_revision calls accepted per agent from the manager's client
MaxRequests == 2
\* most calls per agent and operation in the stand-alone manager (SpecRM)
MaxApiCalls == 2
\* most crawled pages handed to the conversion analysis (SpecConversion)
MaxSitePages == 2
\* most agents registered with the orchestrator when the execution order is
\* computed (SpecOrder)
MaxRegistered == 3
\* most dependencies one of these agents declares (SpecOrder)
MaxDeclared == 2

\* ------------------------------------------------------- static structure
Agents ==
    {"website", "positioning", "seo", "conversion", "content", "trust",
     "social", "segmentation", "resource_hub", "top5_pages", "competitor",
     "critique", "deep_research", "prompt_visibility", "social_listening"}

Dependencies ==
    [a \in Agents |->
        CASE a = "positioning"       -> {"website"}
          [] a = "seo"               -> {"website"}
          [] a = "conversion"        -> {"website"}
          [] a = "content"           -> {"website"}
          [] a = "trust"             -> {"website"}
          [] a = "social"            -> {"website"}
          [] a = "segmentation"      -> {"website"}
          [] a = "resource_hub"      -> {"website", "conversion"}
          [] a = "top5_pages"        -> {"website", "positioning"}
          [] a = "competitor"        -> {"website", "positioning"}
          [] a = "prompt_visibility" -> {"deep_research"}
          [] a = "critique"          -> {"positioning", "seo", "conversion",
                                         "content", "trust", "social",
                                         "segmentation", "resource_hub",
                                         "top5_pages"}
          [] OTHER                   -> {}]

\* the run_phase calls of run_audit, in call order
PhaseAgents ==
    << <<"website">>,
       <<"deep_research">>,
       <<"positioning", "seo", "conversion", "content", "trust", "social",
         "segmentation", "prompt_visibility", "social_listening">>,
       <<"resource_hub", "top5_pages">>,
       <<"competitor">> >>

NumPhases == 5
\* capture_pending_screenshots runs after this phase
ScreenshotsAfterPhase == 4

\* agents a client of the revision manager asks revisions for, in the order
\* the critique pass reviews them (CritiqueAgent.dependencies)
RevisionInputs == <<"positioning", "conversion", "resource_hub">>
\* agent names used as arguments of the stand-alone manager (SpecRM)
ApiAgents == {"seo", "trust"}

Range(s) == {s[i] : i \in 1..Len(s)}

\* the agent names that may be registered when the order is computed
RegistryPool == <<"website", "positioning", "top5_pages", "competitor">>
RegistryNames == {RegistryPool[i] : i \in 1..MaxRegistered}

\* the agents whose outcome synthesize_findings reads
SynthModules == {"seo", "trust", "content", "positioning"}

\* agent -> the run_phase call that names it (0: none, the critique agent)
PhaseIndex ==
    [a \in Agents |->
        IF \E p \in 1..NumPhases : a \in Range(PhaseAgents[p])
        THEN CHOOSE p \in 1..NumPhases : a \in Range(PhaseAgents[p])
        ELSE 0]

PhaseOf(a) == PhaseIndex[a]

\* AgentAnalysis as the dataclass creates it; a timestamp of 0 is None
NewAnalysis ==
    [status |-> "PENDING", module_score |-> "none", errors |-> 0,
     revision_count |-> 0, self_audit_passed |-> FALSE,
     started_at |-> 0, completed_at |-> 0]

\* what a call of run() can do: raise, or return a module score that
\*   "bad"  fails the agent's self_audit,
\*   "weak" passes self_audit but fails the critique thresholds,
\*   "good" passes both
RunOutcomes == {"raise", "bad", "weak", "good"}

VARIABLES
    max_revisions,      \* ContextStore.max_revisions
    analysis,           \* agent -> its AgentAnalysis object
    stored,             \* agent -> the object is in ContextStore.analyses
    pc,                 \* position of run_audit
    phase,              \* index of the current run_phase call
    cycle,              \* loop variable of run_revision_cycles
    ready,              \* event loop ready queue: tasks not yet begun
    tasks,              \* execute() tasks of the current gather / await
    exec_state,         \* agent -> state of its execute() task
    rev_state,          \* agent -> state of its process_revision task
    rev_tasks,          \* revision tasks of the current cycle
    revision_requests,  \* RevisionManager.revision_requests (list lengths)
    request_order,      \* key order of the revision_requests dict
    revision_results,   \* RevisionManager.revision_results (success flags)
    current_cycle,      \* RevisionManager.current_cycle
    critique_flagged,   \* raw_data['revision_requests'] of the last critique
    critique_reviewed,  \* critique_results of the last critique pass
    revised_score,      \* agent -> what run() returned to its last revise()
    critique_input,     \* agent name and module score given to the critique
    critique_result,    \* what _critique_analysis returned for them
    registry,           \* Orchestrator._agents: agent names in key order
    declared,           \* name -> the dependencies attribute of that agent
    execution_order,    \* what get_execution_order returned
    report,             \* AuditReport.modules (by agent name)
    faults,             \* sub-standard run() outcomes so far
    last_exec,          \* agent -> how its latest execute() ended
    last_refused,       \* request_revision refused its latest call for agent
    revise_calls,       \* agent -> number of revise() invocations
    req_at_cycle,       \* request counts when the current cycle began
    rev_base,           \* result counts when the cycle's revisions launched
    clock,              \* what datetime.now() returns: the clock is read
                        \* at the resolution of one await of run_audit
    pages,              \* number of entries of ContextStore.pages
    competitor_notes,   \* notes of the competitor module's first item
    screenshots,        \* agents with pending requests in the store
    critique_failed,    \* agents the last critique gave fail=True
    skip_screenshots,   \* run_audit_pipeline's argument
    screenshot_manager, \* Orchestrator.screenshot_manager
    captures,           \* agents whose requests reached a capture_* call
    module_points,      \* synthesize_findings: agent -> <<points of its
                        \* module>>, or <<>> when it has no module score
    friction,           \* title of the StrategicFrictionPoint returned
    site_pages,         \* ConversionAgent.run: the crawled pages
    llm_available,      \* ConversionAgent.run: LLMClient.is_available()
    conversion_module   \* the ModuleScore ConversionAgent.run returned

vars == <<max_revisions, analysis, stored, pc, phase, cycle, ready, tasks,
          exec_state, rev_state, rev_tasks, revision_requests,
          request_order, revision_results, current_cycle, critique_flagged,
          report, faults, last_exec, last_refused, revise_calls,
          req_at_cycle, rev_base, clock, pages, competitor_notes,
          screenshots, critique_failed, skip_screenshots,
          screenshot_manager, captures, module_points, friction,
          site_pages, llm_available, conversion_module, critique_reviewed,
          revised_score, critique_input, critique_result, registry,
          declared, execution_order>>

\* the variables no step of run_audit and no call of the manager writes
outside ==
    <<max_revisions, skip_screenshots, module_points, friction, site_pages,
      llm_available, conversion_module, critique_input, critique_result,
      registry, declared, execution_order>>
fixed == <<outside, clock>>

\* ------------------------------------------------------------ ContextStore
\* ContextStore.get_analysis(...) is not None and has the given status
HasStatus(a, s) == stored[a] /\ analysis[a].status = s

\* ---------------------------------------------------------------- BaseAgent
\* mutant: an agent may run whatever its dependencies' status
can_run_Unchecked(a) == TRUE

\* mutant: a dependency counts as met once it has any stored record
can_run_Stored(a) == \A d \in Dependencies[a] : stored[d]

can_run(a) == \A d \in Dependencies[a] : HasStatus(d, "COMPLETED")

get_missing_dependencies(a) ==
    {d \in Dependencies[a] : ~HasStatus(d, "COMPLETED")}

\* mutant: the website agent's self-audit does not look at the pages
self_audit_NoPageCheck(a, rec, pg) ==
    IF a \in {"critique", "website"} THEN TRUE
    ELSE rec.module_score \in {"weak", "good"}

\* self_audit() on the analysis record the agent holds, pg pages in the
\* store; WebsiteAgent.self_audit reads the store's pages and no score
self_audit(a, rec, pg) ==
    IF a = "critique" THEN TRUE
    ELSE IF a = "website" THEN pg >= 1
    ELSE rec.module_score \in {"weak", "good"}

\* execute(), dependencies unmet: lines 105-109
ExecuteUnmet(rec) ==
    [rec EXCEPT !.status = "PENDING", !.errors = @ + 1]

\* execute(), lines 111-113
ExecuteStart(rec) ==
    [rec EXCEPT !.status = "RUNNING", !.started_at = clock]

\* mutant: the except clause records the error but leaves the status alone
ExecuteOnRaise_StatusKept(rec) == [rec EXCEPT !.errors = @ + 1]

\* execute(), the except clause: lines 140-143
ExecuteOnRaise(rec) ==
    [rec EXCEPT !.status = "FAILED", !.errors = @ + 1]

\* execute(), run() returned a score: lines 126-138
ExecuteOnScore(a, rec, score, pg) ==
    LET r1 == [rec EXCEPT !.module_score = score]
        ok == self_audit(a, r1, pg)
    IN  [r1 EXCEPT !.self_audit_passed = ok,
                   !.status = IF ok THEN "COMPLETED" ELSE "NEEDS_REVISION",
                   !.completed_at = clock]

\* revise() up to the await of run(): BaseAgent lines 280-281;
\* PositioningAgent overrides revise() and touches nothing
ReviseStart(a, rec) ==
    IF a = "positioning" THEN rec
    ELSE [rec EXCEPT !.revision_count = @ + 1, !.status = "RUNNING"]

\* ----------------------------------------------------------- CritiqueAgent
\* _critique_analysis(...)['passed'] for a stored score
CritiquePassed(score) == score = "good"

\* _agent_specific_critique(...)['fail']: only the competitor branch sets it
AgentSpecificFail(a) ==
    a = "competitor" /\ competitor_notes # "analysed"

\* run(): the dependencies that are reviewed (lines 45-49)
CritiqueReviewed ==
    {a \in Dependencies["critique"] : HasStatus(a, "COMPLETED")}

\* run(): the reviewed agents whose critique has fail=True
CritiqueFatal == {a \in CritiqueReviewed : AgentSpecificFail(a)}

\* run(): the agents put into revision_requests (lines 45-59)
CritiqueRun ==
    {a \in Dependencies["critique"] :
        HasStatus(a, "COMPLETED") /\ ~CritiquePassed(analysis[a].module_score)}

\* --------------------------------------------------------- RevisionManager
can_request_revision(a) == Len(revision_results[a]) < max_revisions

\* mutant: an agent stays pending after its last request was answered
get_pending_revisions_Answered ==
    LET Pending(a) == revision_requests[a] >= Len(revision_results[a])
    IN  SelectSeq(request_order, Pending)

get_pending_revisions ==
    LET Pending(a) == revision_requests[a] > Len(revision_results[a])
    IN  SelectSeq(request_order, Pending)

should_continue_revising ==
    IF current_cycle >= max_revisions THEN FALSE
    ELSE IF get_pending_revisions = <<>> THEN FALSE
    ELSE \E a \in Range(get_pending_revisions) : can_request_revision(a)

\* request_revision(agent_name, ...): lines 49-76
request_revision(a) ==
    IF ~can_request_revision(a)
    THEN /\ last_refused' = [last_refused EXCEPT ![a] = TRUE]
         /\ UNCHANGED <<revision_requests, request_order>>
    ELSE /\ last_refused' = [last_refused EXCEPT ![a] = FALSE]
         /\ revision_requests' = [revision_requests EXCEPT ![a] = @ + 1]
         /\ request_order' = IF a \in Range(request_order)
                             THEN request_order
                             ELSE Append(request_order, a)

\* record_revision_result(agent_name, success, ...): lines 78-101
record_revision_result(a, success) ==
    revision_results' = [revision_results EXCEPT ![a] = Append(@, success)]

\* start_new_cycle()
start_new_cycle == current_cycle' = current_cycle + 1

\* ------------------------------------------------------------------ Init
InitCommon ==
    /\ max_revisions \in 0..MaxRevisionBudget
    /\ analysis = [a \in Agents |-> NewAnalysis]
    /\ stored = [a \in Agents |-> FALSE]
    /\ phase = 0
    /\ cycle = 0
    /\ ready = <<>>
    /\ tasks = <<>>
    /\ exec_state = [a \in Agents |-> "idle"]
    /\ rev_state = [a \in Agents |-> "idle"]
    /\ rev_tasks = <<>>
    /\ revision_requests = [a \in Agents |-> 0]
    /\ request_order = <<>>
    /\ revision_results = [a \in Agents |-> <<>>]
    /\ current_cycle = 0
    /\ critique_flagged = {}
    /\ report = <<>>
    /\ faults = 0
    /\ last_exec = [a \in Agents |-> "none"]
    /\ last_refused = [a \in Agents |-> FALSE]
    /\ revise_calls = [a \in Agents |-> 0]
    /\ req_at_cycle = [a \in Agents |-> 0]
    /\ rev_base = [a \in Agents |-> 0]
    /\ clock = 1
    /\ pages = 0
    /\ competitor_notes = "none"
    /\ screenshots = {}
    /\ critique_failed = {}
    /\ screenshot_manager = "None"
    /\ captures = {}
    /\ critique_reviewed = {}
    /\ revised_score = [a \in Agents |-> "none"]

\* no module points given, nothing synthesized, no conversion analysis
NoCritiqueInput ==
    /\ critique_input =
          [agent |-> "none", has_score |-> FALSE, text_len |-> 0,
           items |-> 0, empty_notes |-> 0, recommendations |-> 0,
           ratios |-> 0, raw_data_ok |-> FALSE]
    /\ critique_result = <<>>

\* no agent registered, no execution order asked for
NoRegistry ==
    /\ registry = <<>>
    /\ declared = [n \in RegistryNames |-> {}]
    /\ execution_order = <<>>

NoFunctionInputs ==
    /\ module_points = [m \in SynthModules |-> <<>>]
    /\ friction = "none"
    /\ site_pages = <<>>
    /\ llm_available = FALSE
    /\ conversion_module = [source |-> "none", items |-> <<>>]
    /\ NoCritiqueInput
    /\ NoRegistry

\* an Orchestrator right after its construction, before run_audit
Init ==
    InitCommon /\ pc = "start" /\ skip_screenshots = FALSE
    /\ NoFunctionInputs

\* ------------------------------------------------------------- bookkeeping
\* an await of run_audit has returned: time has passed
AwaitReturned == clock' = clock + 1

Task(k, a) == [kind |-> k, agent |-> a]

\* asyncio puts the coroutines of one gather on the ready queue in order
Schedule(k, ts) == ready \o [i \in 1..Len(ts) |-> Task(k, ts[i])]

MarkAll(f, ts, v) == [a \in Agents |-> IF a \in Range(ts) THEN v ELSE f[a]]

NoOrchestratorChange == UNCHANGED <<pc, phase, cycle, tasks, rev_tasks, report>>
NoManagerChange ==
    UNCHANGED <<revision_requests, request_order, revision_results,
                current_cycle, last_refused>>
NoHistoryChange == UNCHANGED <<req_at_cycle, rev_base>>
NoContextChange ==
    UNCHANGED <<pages, competitor_notes, screenshots, critique_failed,
                screenshot_manager, captures, critique_reviewed,
                revised_score>>

\* --------------------------------------------------- Orchestrator.run_phase
\* the loop of lines 234-250: the agents whose execute() is put in tasks
PhaseTasks(p) ==
    LET Launch(n) == /\ can_run(n)
                     /\ ~HasStatus(n, "COMPLETED")
    IN  SelectSeq(PhaseAgents[p], Launch)

\* mutant: the phase's tasks are started but not awaited
GatherDone_NoWait(ts) == TRUE

\* asyncio.gather(*tasks) has returned: every execute() has returned
GatherDone(ts) == \A a \in Range(ts) : exec_state[a] = "returned"

\* run_audit's statement after the run_phase call number p
AfterPhase(p) ==
    IF p = ScreenshotsAfterPhase THEN pc' = "screenshots" /\ phase' = p
    ELSE IF p = NumPhases THEN pc' = "quality_review" /\ phase' = p
    ELSE pc' = "run_phase" /\ phase' = p + 1

\* run_audit line 279
RegisterAllAgents ==
    /\ pc = "start"
    /\ pc' = "run_phase"
    /\ phase' = 1
    /\ NoContextChange
    /\ UNCHANGED <<fixed, analysis, stored, cycle, ready, tasks,
                   exec_state, rev_state, rev_tasks, critique_flagged,
                   report, faults, last_exec, revise_calls>>
    /\ NoManagerChange /\ NoHistoryChange

\* run_phase up to the await of gather (or its return when tasks is empty)
RunPhaseLaunch ==
    /\ pc = "run_phase"
    /\ LET ts == PhaseTasks(phase) IN
        IF ts = <<>>
        THEN /\ AfterPhase(phase)
             /\ UNCHANGED <<tasks, ready, exec_state>>
        ELSE /\ tasks' = ts
             /\ ready' = Schedule("execute", ts)
             /\ exec_state' = MarkAll(exec_state, ts, "scheduled")
             /\ pc' = "gather"
             /\ phase' = phase
    /\ NoContextChange
    /\ UNCHANGED <<fixed, analysis, stored, cycle, rev_state,
                   rev_tasks, critique_flagged, report, faults, last_exec,
                   revise_calls>>
    /\ NoManagerChange /\ NoHistoryChange

\* the await of gather in run_phase returns
RunPhaseReturn ==
    /\ pc = "gather"
    /\ GatherDone(tasks)
    /\ AfterPhase(phase)
    /\ NoContextChange
    /\ AwaitReturned
    /\ UNCHANGED <<outside, analysis, stored, cycle, ready, tasks,
                   exec_state, rev_state, rev_tasks, critique_flagged,
                   report, faults, last_exec, revise_calls>>
    /\ NoManagerChange /\ NoHistoryChange

\* capture_pending_screenshots, called at run_audit line 303: a missing
\* manager is created (the constructor imports nothing, so the ImportError
\* branch is dead), every pending request goes to a capture_* call and
\* comes back with data or with an "Error" note
CaptureScreenshots ==
    /\ pc = "screenshots"
    /\ pc' = "run_phase"
    /\ phase' = phase + 1
    /\ screenshot_manager' = "ScreenshotManager"
    /\ captures' = captures \cup screenshots
    /\ screenshots' = {}
    /\ UNCHANGED <<pages, competitor_notes, critique_failed,
                   critique_reviewed, revised_score>>
    /\ UNCHANGED <<fixed, analysis, stored, cycle, ready, tasks,
                   exec_state, rev_state, rev_tasks, critique_flagged,
                   report, faults, last_exec, revise_calls>>
    /\ NoManagerChange /\ NoHistoryChange

\* ------------------------------------------------------- BaseAgent.execute
\* execute() from its first statement to the await of run()
ExecuteBegin ==
    /\ pc \notin {"done", "aborted"}
    /\ ready # <<>>
    /\ Head(ready).kind = "execute"
    /\ LET a == Head(ready).agent IN
        /\ ready' = Tail(ready)
        /\ IF ~can_run(a)
           THEN /\ analysis' = [analysis EXCEPT ![a] = ExecuteUnmet(@)]
                /\ exec_state' = [exec_state EXCEPT ![a] = "returned"]
                /\ last_exec' = [last_exec EXCEPT ![a] = "unmet"]
                /\ UNCHANGED stored
           ELSE /\ analysis' = [analysis EXCEPT ![a] = ExecuteStart(@)]
                /\ stored' = [stored EXCEPT ![a] = TRUE]
                /\ exec_state' = [exec_state EXCEPT ![a] = "running"]
                /\ last_exec' = [last_exec EXCEPT ![a] = "running"]
        \* a critique pass that has not reached run() has reviewed nothing
        /\ critique_reviewed' =
              IF a = "critique" THEN {} ELSE critique_reviewed
    /\ UNCHANGED <<pages, competitor_notes, screenshots, critique_failed,
                   screenshot_manager, captures, revised_score>>
    /\ UNCHANGED <<fixed, rev_state, critique_flagged, faults,
                   revise_calls>>
    /\ NoOrchestratorChange /\ NoManagerChange /\ NoHistoryChange

\* WebsiteAgent.run: the number of pages add_page stored
Crawl(out) == IF out = "good" THEN 1 ELSE 0

\* CompetitorAgent.run: the notes of the first item of the module returned
CompetitorNotes(out) ==
    IF out = "good" THEN {"analysed"}
    ELSE {"No competitors found", "Could not fetch competitors"}

\* the agents whose run() calls request_screenshot
ScreenshotRequesters == {"top5_pages", "social_listening"}

\* what run() wrote to the store when it ends with outcome out
RunWrites(a, out) ==
    /\ pages' = IF a = "website" THEN pages + Crawl(out) ELSE pages
    /\ IF a = "competitor" /\ out # "raise"
       THEN competitor_notes' \in CompetitorNotes(out)
       ELSE UNCHANGED competitor_notes
    /\ screenshots' =
          IF a \in ScreenshotRequesters /\ out \in {"weak", "good"}
          THEN screenshots \cup {a}
          ELSE screenshots

\* execute() from the return of run() to its own return
ExecuteFinish(a, out) ==
    /\ pc \notin {"done", "aborted"}
    /\ exec_state[a] = "running"
    /\ out # "good" => faults < MaxFaults
    \* the critique's score is computed from the store alone
    /\ a = "critique" => out \in {"raise", "good"}
    \* only the agents the critique reviews can fail its thresholds
    /\ out = "weak" => a \in Dependencies["critique"]
    /\ faults' = IF out = "good" THEN faults ELSE faults + 1
    /\ RunWrites(a, out)
    /\ IF out = "raise"
       THEN /\ analysis' = [analysis EXCEPT ![a] = ExecuteOnRaise(@)]
            /\ last_exec' = [last_exec EXCEPT ![a] = "raised"]
            /\ UNCHANGED <<critique_flagged, critique_failed,
                           critique_reviewed>>
       ELSE /\ analysis' =
                  [analysis EXCEPT ![a] = ExecuteOnScore(a, @, out, pages')]
            /\ last_exec' = [last_exec EXCEPT ![a] = "scored"]
            /\ critique_flagged' =
                  IF a = "critique" THEN CritiqueRun ELSE critique_flagged
            /\ critique_failed' =
                  IF a = "critique" THEN CritiqueFatal ELSE critique_failed
            /\ critique_reviewed' =
                  IF a = "critique" THEN CritiqueReviewed
                  ELSE critique_reviewed
    /\ UNCHANGED <<screenshot_manager, captures, revised_score>>
    /\ stored' = [stored EXCEPT ![a] = TRUE]
    /\ exec_state' = [exec_state EXCEPT ![a] = "returned"]
    /\ UNCHANGED <<fixed, ready, rev_state, revise_calls>>
    /\ NoOrchestratorChange /\ NoManagerChange /\ NoHistoryChange

\* ------------------------------------------ Orchestrator.run_revision_cycles
\* mutant: the loop runs one iteration too many
RevLoopHasNext_OffByOne(c) == c <= max_revisions

\* `for cycle in range(self.context.max_revisions)` has a next iteration
RevLoopHasNext(c) == c < max_revisions

\* mutant: the revision tasks are started but not awaited
RevisionGatherDone_NoWait(ts) == TRUE

\* asyncio.gather(*revision_tasks) has returned normally
RevisionGatherDone(ts) == \A a \in Range(ts) : rev_state[a] = "returned"

\* a client of Orchestrator.revision_manager records a request for an agent
\* whose analysis is COMPLETED (the agents a critique pass reviews), while
\* run_audit makes its "Quality Review" progress callback (lines 312-313);
\* no code of the repository calls request_revision
ClientRequestRevision(a) ==
    /\ pc = "quality_review"
    /\ \E i \in 1..Len(RevisionInputs) :
          /\ a = RevisionInputs[i]
          /\ \A j \in (i + 1)..Len(RevisionInputs) :
                revision_requests[RevisionInputs[j]] = 0
    /\ HasStatus(a, "COMPLETED")
    /\ revision_requests[a] < MaxRequests
    /\ request_revision(a)
    /\ NoContextChange
    /\ UNCHANGED <<fixed, analysis, stored, ready, exec_state,
                   rev_state, revision_results, current_cycle,
                   critique_flagged, faults, last_exec, revise_calls>>
    /\ NoOrchestratorChange /\ NoHistoryChange

\* run_audit line 314 and run_revision_cycles lines 402-407
EnterRevisionCycles ==
    /\ pc = "quality_review"
    /\ pc' = "rev_loop"
    /\ cycle' = 0
    /\ NoContextChange
    /\ UNCHANGED <<fixed, analysis, stored, phase, ready, tasks,
                   exec_state, rev_state, rev_tasks, critique_flagged,
                   report, faults, last_exec, revise_calls>>
    /\ NoManagerChange /\ NoHistoryChange

\* head of the for loop, start_new_cycle and the call of critique.execute()
RevisionCycleStart ==
    /\ pc = "rev_loop"
    /\ IF RevLoopHasNext(cycle)
       THEN /\ start_new_cycle
            /\ tasks' = <<"critique">>
            /\ ready' = Schedule("execute", <<"critique">>)
            /\ exec_state' = [exec_state EXCEPT !["critique"] = "scheduled"]
            /\ req_at_cycle' = revision_requests
            /\ pc' = "rev_critique"
       ELSE /\ pc' = "synthesis"
            /\ UNCHANGED <<current_cycle, tasks, ready, exec_state,
                           req_at_cycle>>
    /\ NoContextChange
    /\ UNCHANGED <<fixed, analysis, stored, phase, cycle, rev_state,
                   rev_tasks, revision_requests, request_order,
                   revision_results, last_refused, critique_flagged, report,
                   faults, last_exec, revise_calls, rev_base>>

\* lines 417-444 up to the await of gather: the pending requests become the
\* cycle's revision tasks, or the loop breaks when there are none
RevisionLaunch ==
    /\ pc = "rev_critique"
    /\ exec_state["critique"] = "returned"
    /\ LET pending == get_pending_revisions IN
        IF pending = <<>>
        THEN /\ pc' = "synthesis"
             /\ UNCHANGED <<rev_tasks, ready, rev_state, rev_base>>
        ELSE /\ rev_tasks' = pending
             /\ ready' = Schedule("revise", pending)
             /\ rev_state' = MarkAll(rev_state, pending, "scheduled")
             /\ rev_base' = [a \in Agents |-> Len(revision_results[a])]
             /\ pc' = "rev_gather"
    /\ NoContextChange
    /\ AwaitReturned
    /\ UNCHANGED <<outside, analysis, stored, phase, cycle, tasks,
                   exec_state, critique_flagged, report, faults, last_exec,
                   revise_calls, req_at_cycle>>
    /\ NoManagerChange

\* process_revision up to the await of run() inside revise()
ReviseBegin ==
    /\ pc \notin {"done", "aborted"}
    /\ ready # <<>>
    /\ Head(ready).kind = "revise"
    /\ LET a == Head(ready).agent IN
        /\ ready' = Tail(ready)
        /\ analysis' = [analysis EXCEPT ![a] = ReviseStart(a, @)]
        /\ rev_state' = [rev_state EXCEPT ![a] = "running"]
        /\ revise_calls' = [revise_calls EXCEPT ![a] = @ + 1]
    /\ NoContextChange
    /\ UNCHANGED <<fixed, stored, exec_state, critique_flagged,
                   faults, last_exec>>
    /\ NoOrchestratorChange /\ NoManagerChange /\ NoHistoryChange

\* run() returns inside revise(): the returned score is bound to the local
\* revised_score and dropped, self_audit() reads the record, the result is
\* recorded (lines 432-439)
ReviseFinish(a, out) ==
    /\ pc \notin {"done", "aborted"}
    /\ rev_state[a] = "running"
    /\ out # "good" => faults < MaxFaults
    /\ faults' = IF out = "good" THEN faults ELSE faults + 1
    /\ revised_score' = [revised_score EXCEPT ![a] = out]
    /\ record_revision_result(a, self_audit(a, analysis[a], pages))
    /\ rev_state' = [rev_state EXCEPT ![a] = "returned"]
    /\ UNCHANGED <<pages, competitor_notes, screenshots, critique_failed,
                   screenshot_manager, captures, critique_reviewed>>
    /\ UNCHANGED <<fixed, analysis, stored, ready, exec_state,
                   revision_requests, request_order, current_cycle,
                   last_refused, critique_flagged, last_exec,
                   revise_calls>>
    /\ NoOrchestratorChange /\ NoHistoryChange

\* run() raises inside revise(): nothing between it and run_audit's caller
\* catches, gather re-raises the first exception to run_revision_cycles
ReviseRaise(a) ==
    /\ pc \notin {"done", "aborted"}
    /\ rev_state[a] = "running"
    /\ rev_state' = [rev_state EXCEPT ![a] = "raised"]
    /\ pc' = "aborted"
    /\ NoContextChange
    /\ UNCHANGED <<fixed, analysis, stored, phase, cycle, ready,
                   tasks, exec_state, rev_tasks, critique_flagged, report,
                   faults, last_exec, revise_calls>>
    /\ NoManagerChange /\ NoHistoryChange

\* the await of gather returns; should_continue_revising decides (446-447)
RevisionCycleEnd ==
    /\ pc = "rev_gather"
    /\ RevisionGatherDone(rev_tasks)
    /\ IF should_continue_revising
       THEN pc' = "rev_loop" /\ cycle' = cycle + 1
       ELSE pc' = "synthesis" /\ UNCHANGED cycle
    /\ NoContextChange
    /\ AwaitReturned
    /\ UNCHANGED <<outside, analysis, stored, phase, ready, tasks,
                   exec_state, rev_state, rev_tasks, critique_flagged,
                   report, faults, last_exec, revise_calls>>
    /\ NoManagerChange /\ NoHistoryChange

\* ------------------------------------------------- synthesis and the report
\* build_report's display order (lines 468-473)
agent_order ==
    <<"positioning", "seo", "conversion", "content", "trust", "social",
      "segmentation", "resource_hub", "prompt_visibility",
      "social_listening", "top5_pages", "competitor">>

\* mutant: every stored record gives a module, with or without a score
build_report_AnyRecord ==
    LET HasRecord(n) == stored[n]
    IN  SelectSeq(agent_order, HasRecord)

\* build_report: lines 475-478
build_report ==
    LET HasScore(n) == stored[n] /\ analysis[n].module_score # "none"
    IN  SelectSeq(agent_order, HasScore)

\* run_audit line 320
SynthesizeFindings ==
    /\ pc = "synthesis"
    /\ pc' = "report"
    /\ NoContextChange
    /\ UNCHANGED <<fixed, analysis, stored, phase, cycle, ready,
                   tasks, exec_state, rev_state, rev_tasks, critique_flagged,
                   report, faults, last_exec, revise_calls>>
    /\ NoManagerChange /\ NoHistoryChange

\* run_audit lines 323-329
BuildReport ==
    /\ pc = "report"
    /\ report' = build_report
    /\ pc' = "done"
    /\ NoContextChange
    /\ UNCHANGED <<fixed, analysis, stored, phase, cycle, ready,
                   tasks, exec_state, rev_state, rev_tasks, critique_flagged,
                   faults, last_exec, revise_calls>>
    /\ NoManagerChange /\ NoHistoryChange

\* ------------------------------------------------------------ specification
Next ==
    \/ RegisterAllAgents
    \/ RunPhaseLaunch
    \/ RunPhaseReturn
    \/ CaptureScreenshots
    \/ ExecuteBegin
    \/ \E a \in Agents, out \in RunOutcomes : ExecuteFinish(a, out)
    \/ \E a \in Agents : ClientRequestRevision(a)
    \/ EnterRevisionCycles
    \/ RevisionCycleStart
    \/ RevisionLaunch
    \/ ReviseBegin
    \/ \E a \in Agents, out \in RunOutcomes \ {"raise"} :
          ReviseFinish(a, out)
    \/ \E a \in Agents : ReviseRaise(a)
    \/ RevisionCycleEnd
    \/ SynthesizeFindings
    \/ BuildReport

Spec == Init /\ [][Next]_vars

TypeOK ==
    /\ max_revisions \in 0..MaxRevisionBudget
    /\ pc \in {"pipeline", "start", "run_phase", "gather", "screenshots",
               "quality_review", "rev_loop", "rev_critique", "rev_gather",
               "synthesis", "report", "done", "aborted"}
    /\ \A a \in Agents :
        /\ analysis[a].status \in
             {"PENDING", "RUNNING", "COMPLETED", "FAILED", "NEEDS_REVISION"}
        /\ exec_state[a] \in {"idle", "scheduled", "running", "returned"}
        /\ rev_state[a] \in
             {"idle", "scheduled", "running", "returned", "raised"}

\* ------------------------------------- the RevisionManager as an object
\* The manager right after RevisionManager(max_revisions), driven by any
\* sequence of calls of its public methods.
InitRM ==
    InitCommon /\ pc = "api" /\ skip_screenshots = FALSE /\ NoFunctionInputs

ApiUnchanged ==
    /\ NoContextChange
    /\ UNCHANGED <<fixed, analysis, stored, pc, phase, cycle, ready,
                tasks, exec_state, rev_state, rev_tasks, critique_flagged,
                report, faults, last_exec, revise_calls, req_at_cycle,
                rev_base>>

ApiRequestRevision(a) ==
    /\ pc = "api"
    /\ revision_requests[a] < MaxApiCalls
    /\ request_revision(a)
    /\ UNCHANGED <<revision_results, current_cycle>>
    /\ ApiUnchanged

ApiRecordRevisionResult(a, success) ==
    /\ pc = "api"
    /\ Len(revision_results[a]) < MaxApiCalls
    /\ record_revision_result(a, success)
    /\ UNCHANGED <<revision_requests, request_order, current_cycle,
                   last_refused>>
    /\ ApiUnchanged

ApiStartNewCycle ==
    /\ pc = "api"
    /\ current_cycle < MaxApiCalls
    /\ start_new_cycle
    /\ UNCHANGED <<revision_requests, request_order, revision_results,
                   last_refused>>
    /\ ApiUnchanged

NextRM ==
    \/ \E a \in ApiAgents : ApiRequestRevision(a)
    \/ \E a \in ApiAgents, success \in BOOLEAN :
          ApiRecordRevisionResult(a, success)
    \/ ApiStartNewCycle

SpecRM == InitRM /\ [][NextRM]_vars

\* --------------------------------------------- run_audit as it is shipped
\* audit.run_audit_pipeline, lines 228-242: the orchestrator is built and
\* run_audit is called
InitPipeline ==
    InitCommon /\ pc = "pipeline" /\ skip_screenshots \in BOOLEAN
    /\ NoFunctionInputs

RunAuditPipeline ==
    /\ pc = "pipeline"
    /\ screenshot_manager' =
          IF skip_screenshots THEN "None" ELSE screenshot_manager
    /\ pc' = "start"
    /\ UNCHANGED <<pages, competitor_notes, screenshots, critique_failed,
                   captures, critique_reviewed, revised_score>>
    /\ UNCHANGED <<fixed, analysis, stored, phase, cycle, ready, tasks,
                   exec_state, rev_state, rev_tasks, critique_flagged,
                   report, faults, last_exec, revise_calls>>
    /\ NoManagerChange /\ NoHistoryChange

\* the pipeline as the repository runs it: nothing calls request_revision,
\* so no revision is ever pending and no revision task is created
NextAudit ==
    \/ RunAuditPipeline
    \/ RegisterAllAgents
    \/ RunPhaseLaunch
    \/ RunPhaseReturn
    \/ CaptureScreenshots
    \/ ExecuteBegin
    \/ \E a \in Agents, out \in RunOutcomes : ExecuteFinish(a, out)
    \/ EnterRevisionCycles
    \/ RevisionCycleStart
    \/ RevisionLaunch
    \/ SynthesizeFindings
    \/ BuildReport

SpecAudit == InitPipeline /\ [][NextAudit]_vars

\* ------------------------------------ Orchestrator.synthesize_findings
\* ModuleScore.name as each agent's run() sets it
ModuleName ==
    [m \in SynthModules |->
        CASE m = "seo"         -> "SEO & Technical"
          [] m = "trust"       -> "Trust & Credibility"
          [] m = "content"     -> "Content Quality"
          [] m = "positioning" -> "Positioning & Messaging"]

\* the words of name.lower() that ModuleScore.outcome looks for
NameHas(name, word) ==
    CASE word = "trust"      -> name = "Trust & Credibility"
      [] word = "social"     -> FALSE
      [] word = "conversion" -> FALSE

\* the module scores drawn for a call: actual and maximal points, summed
\* over the items (no items: 0 of 0)
ScoreInputs ==
    {[actual_points |-> 0,  max_points |-> 0],
     [actual_points |-> 30, max_points |-> 100],
     [actual_points |-> 13, max_points |-> 20],
     [actual_points |-> 75, max_points |-> 100],
     [actual_points |-> 85, max_points |-> 100],
     [actual_points |-> 18, max_points |-> 20],
     [actual_points |-> 95, max_points |-> 100]}

\* ModuleScore.percentage, as far as the integer thresholds can tell
percentage(score) ==
    IF score.max_points = 0 THEN 0
    ELSE (score.actual_points * 100) \div score.max_points

\* mutant: a failing module's outcome does not depend on its name
outcome_NameBlind(name, score) ==
    LET pct == percentage(score) IN
    IF pct >= 95 THEN "AUTHORITY"
    ELSE IF pct >= 90 THEN "LEADER"
    ELSE IF pct >= 80 THEN "CONTENDER"
    ELSE IF pct >= 70 THEN "RISK_DILUTION"
    ELSE IF pct >= 60 THEN "RISK_COMMODITY"
    ELSE "GAP_VISIBILITY"

\* ModuleScore.outcome
outcome(name, score) ==
    LET pct == percentage(score) IN
    IF pct >= 95 THEN "AUTHORITY"
    ELSE IF pct >= 90 THEN "LEADER"
    ELSE IF pct >= 80 THEN "CONTENDER"
    ELSE IF pct >= 70 THEN "RISK_DILUTION"
    ELSE IF pct >= 60 THEN "RISK_COMMODITY"
    ELSE IF NameHas(name, "trust") \/ NameHas(name, "social")
         THEN "GAP_AUTHORITY"
    ELSE IF NameHas(name, "conversion") THEN "GAP_CONVERSION"
    ELSE "GAP_VISIBILITY"

\* scores.get(m): the outcome of a module that has a score, else None
ScoreOutcome(points, m) ==
    IF points[m] = <<>> THEN "None"
    ELSE outcome(ModuleName[m], points[m][1])

\* synthesize_findings on the stored module scores: the title returned
synthesize_findings(points) ==
    LET seo_good == ScoreOutcome(points, "seo") \in {"AUTHORITY", "LEADER"}
        trust_bad == ScoreOutcome(points, "trust") \in
                        {"GAP_AUTHORITY", "GAP_CONVERSION"}
        content_good ==
            ScoreOutcome(points, "content") \in {"AUTHORITY", "LEADER"}
        seo_bad == ScoreOutcome(points, "seo") \in
                        {"GAP_VISIBILITY", "RISK_DILUTION"}
        pos_bad == ScoreOutcome(points, "positioning") \in
                        {"RISK_COMMODITY", "GAP_AUTHORITY"}
    IN  IF seo_good /\ trust_bad THEN "The 'Leaky Bucket' Effect"
        ELSE IF content_good /\ seo_bad THEN "The Invisible Expert"
        ELSE IF seo_good /\ pos_bad THEN "The Commodity Trap"
        ELSE "General Performance Gap"

\* synthesize_findings called on any combination of module scores
InitSynthesis ==
    /\ InitCommon /\ pc = "synthesize" /\ skip_screenshots = FALSE
    /\ module_points \in
          [SynthModules -> {<<>>} \cup {<<sc>> : sc \in ScoreInputs}]
    /\ friction = "none"
    /\ site_pages = <<>>
    /\ llm_available = FALSE
    /\ conversion_module = [source |-> "none", items |-> <<>>]
    /\ NoCritiqueInput
    /\ NoRegistry

Synthesize ==
    /\ pc = "synthesize"
    /\ friction' = synthesize_findings(module_points)
    /\ pc' = "synthesized"
    /\ UNCHANGED <<max_revisions, skip_screenshots, module_points,
                   site_pages, llm_available, conversion_module, clock,
                   analysis, stored, phase, cycle, ready, tasks, exec_state,
                   rev_state, rev_tasks, critique_flagged, report, faults,
                   last_exec, revise_calls>>
    /\ UNCHANGED <<critique_input, critique_result, registry, declared,
                   execution_order>>
    /\ NoManagerChange /\ NoHistoryChange /\ NoContextChange

NextSynthesis == Synthesize

SpecSynthesis == InitSynthesis /\ [][NextSynthesis]_vars

\* ------------------------------------------------- ConversionAgent.run
\* numbers of CTAs and of forms found on one crawled page
PageCtaCounts == {0, 1, 4, 8}
PageFormCounts == {0, 1, 2}

\* a crawled page with n CTAs and m forms
PageData(n, m) ==
    [ctas |-> [i \in 1..n |-> "cta"], forms |-> [i \in 1..m |-> "form"]]

\* ContextStore.get_all_ctas: the CTAs of all pages in one list, each with
\* the page it is from
RECURSIVE get_all_ctas(_)
get_all_ctas(ps) ==
    IF ps = <<>> THEN <<>>
    ELSE LET n == Len(ps) IN
         get_all_ctas(SubSeq(ps, 1, n - 1)) \o
             [i \in 1..Len(ps[n].ctas) |->
                 [cta |-> ps[n].ctas[i], page_url |-> n]]

\* ContextStore.get_all_forms
RECURSIVE get_all_forms(_)
get_all_forms(ps) ==
    IF ps = <<>> THEN <<>>
    ELSE LET n == Len(ps) IN
         get_all_forms(SubSeq(ps, 1, n - 1)) \o
             [i \in 1..Len(ps[n].forms) |->
                 [form |-> ps[n].forms[i], page_url |-> n]]

ScoreItem(name, max_points, actual_points) ==
    [name |-> name, max_points |-> max_points,
     actual_points |-> actual_points]

\* Python's min on two integers
Min(x, y) == IF x <= y THEN x ELSE y

\* mutant: the CTA score is not capped
_fallback_analysis_Uncapped(all_ctas, all_forms) ==
    LET cta_score == Len(all_ctas) * 2
        form_score == IF all_forms # <<>> THEN 10 ELSE 5
    IN  [source |-> "fallback",
         items |->
           <<ScoreItem("CTA Visibility", 20, cta_score),
             ScoreItem("CTA Copy", 15, 8),
             ScoreItem("Form Optimization", 15, form_score),
             ScoreItem("Trust Signals Near Conversion", 15, 7),
             ScoreItem("Path Clarity", 15, 7),
             ScoreItem("Multiple Entry Points", 10, 5),
             ScoreItem("Friction Reduction", 10, 5)>>]

\* ConversionAgent._fallback_analysis: the items of the module
_fallback_analysis(all_ctas, all_forms) ==
    LET cta_score == Min(Len(all_ctas) * 2, 20)
        form_score == IF all_forms # <<>> THEN 10 ELSE 5
    IN  [source |-> "fallback",
         items |->
           <<ScoreItem("CTA Visibility", 20, cta_score),
             ScoreItem("CTA Copy", 15, 8),
             ScoreItem("Form Optimization", 15, form_score),
             ScoreItem("Trust Signals Near Conversion", 15, 7),
             ScoreItem("Path Clarity", 15, 7),
             ScoreItem("Multiple Entry Points", 10, 5),
             ScoreItem("Friction Reduction", 10, 5)>>]

\* the module built from the text model's parsed answer (not modelled)
LlmModule == [source |-> "llm", items |-> <<>>]

\* ConversionAgent.run called on any small site, text model there or not
InitConversion ==
    /\ InitCommon /\ pc = "conversion" /\ skip_screenshots = FALSE
    /\ module_points = [m \in SynthModules |-> <<>>]
    /\ friction = "none"
    /\ \E k \in 0..MaxSitePages :
          site_pages \in
              [1..k -> {PageData(n, m) : n \in PageCtaCounts,
                                         m \in PageFormCounts}]
    /\ llm_available \in BOOLEAN
    /\ conversion_module = [source |-> "none", items |-> <<>>]
    /\ NoCritiqueInput
    /\ NoRegistry

\* run(): the fallback when the text model is unavailable (lines 55-56) or
\* its call fails (lines 143-145), else the module from its answer
ConversionRun(llm_result) ==
    /\ pc = "conversion"
    /\ ~llm_available => llm_result = "unused"
    /\ llm_available => llm_result \in {"parsed", "error"}
    /\ conversion_module' =
          IF llm_result = "parsed" THEN LlmModule
          ELSE _fallback_analysis(get_all_ctas(site_pages),
                                  get_all_forms(site_pages))
    /\ pc' = "conversion_done"
    /\ UNCHANGED <<max_revisions, skip_screenshots, module_points,
                   friction, site_pages, llm_available, clock, analysis,
                   stored, phase, cycle, ready, tasks, exec_state,
                   rev_state, rev_tasks, critique_flagged, report, faults,
                   last_exec, revise_calls>>
    /\ UNCHANGED <<critique_input, critique_result, registry, declared,
                   execution_order>>
    /\ NoManagerChange /\ NoHistoryChange /\ NoContextChange

NextConversion ==
    \E llm_result \in {"unused", "parsed", "error"} :
        ConversionRun(llm_result)

SpecConversion == InitConversion /\ [][NextConversion]_vars

\* ------------------------------------ CritiqueAgent._critique_analysis
\* QUALITY_THRESHOLDS
min_analysis_length == 100
min_score_items == 3
min_recommendations == 2
max_empty_notes == 2

\* the agents _agent_specific_critique has a branch for, and one it has none
CritiqueNames == {"positioning", "seo", "competitor", "top5_pages", "content"}

\* a module score as the critique reads it: length of analysis_text, number
\* of items, items with no note or the stock note, recommendations,
\* distinct rounded point ratios of the items, and whether raw_data holds
\* what the agent's own check looks for
ModuleScores ==
    {[agent |-> "", has_score |-> TRUE, text_len |-> t, items |-> n,
      empty_notes |-> e, recommendations |-> r, ratios |-> d,
      raw_data_ok |-> ok] :
        t \in {99, 100}, n \in {2, 3, 4}, e \in {0, 2, 3}, r \in {1, 2},
        d \in {1, 2}, ok \in BOOLEAN}

\* scores a ModuleScore object can be: no more noted items than items
ValidScore(sc) == sc.empty_notes <= sc.items /\ sc.ratios <= sc.items

\* mutant: every failed specialized check is an automatic fail
_agent_specific_critique_AllFatal(agent_name, score) ==
    IF agent_name \in {"positioning", "seo", "competitor", "top5_pages"}
          /\ ~score.raw_data_ok
    THEN [issues |-> <<"specialized check failed">>, fail |-> TRUE]
    ELSE [issues |-> <<>>, fail |-> FALSE]

\* _agent_specific_critique(agent_name, score): lines 176-204
_agent_specific_critique(agent_name, score) ==
    IF agent_name = "positioning" /\ ~score.raw_data_ok
    THEN [issues |-> <<"No strengths/weaknesses identified">>,
          fail |-> FALSE]
    ELSE IF agent_name = "seo" /\ ~score.raw_data_ok
    THEN [issues |-> <<"Missing performance metrics">>, fail |-> FALSE]
    ELSE IF agent_name = "competitor" /\ ~score.raw_data_ok
    THEN [issues |-> <<"No competitor data captured">>, fail |-> TRUE]
    ELSE IF agent_name = "top5_pages" /\ ~score.raw_data_ok
    THEN [issues |-> <<"Too few critical pages analyzed">>, fail |-> FALSE]
    ELSE [issues |-> <<>>, fail |-> FALSE]

\* _critique_analysis(agent_name, analysis): lines 116-174
_critique_analysis(agent_name, score, llm) ==
    IF ~score.has_score
    THEN [passed |-> FALSE, issues |-> <<"No module score produced">>]
    ELSE
    LET short == score.text_len < min_analysis_length
        few == score.items < min_score_items
        generic ==
            IF short THEN <<"Analysis text too short or missing">> ELSE <<>>
        counted == IF few THEN <<"Too few score items">> ELSE <<>>
        notes == IF score.empty_notes > max_empty_notes
                 THEN <<"score items lack specific notes">> ELSE <<>>
        recs == IF llm /\ score.recommendations < min_recommendations
                THEN <<"Too few recommendations">> ELSE <<>>
        uniform == IF score.items > 0 /\ score.ratios = 1 /\ score.items > 3
                   THEN <<"All scores are identical">> ELSE <<>>
        specific_issues == _agent_specific_critique(agent_name, score)
        issues == generic \o counted \o notes \o recs \o uniform
                    \o specific_issues.issues
        passed == ~short /\ ~few /\ ~specific_issues.fail
    IN  [passed |-> passed /\ Len(issues) <= 2, issues |-> issues]

\* _critique_analysis called for any agent name on any small score, the
\* text model there or not
InitCritique ==
    /\ InitCommon /\ pc = "critique" /\ skip_screenshots = FALSE
    /\ module_points = [m \in SynthModules |-> <<>>]
    /\ friction = "none"
    /\ site_pages = <<>>
    /\ llm_available \in BOOLEAN
    /\ conversion_module = [source |-> "none", items |-> <<>>]
    /\ \E a \in CritiqueNames :
          critique_input \in
              {[sc EXCEPT !.agent = a] : sc \in {s \in ModuleScores : ValidScore(s)}}
                \cup {[agent |-> a, has_score |-> FALSE, text_len |-> 0,
                       items |-> 0, empty_notes |-> 0,
                       recommendations |-> 0, ratios |-> 0,
                       raw_data_ok |-> FALSE]}
    /\ critique_result = <<>>
    /\ NoRegistry

CritiqueAnalysis ==
    /\ pc = "critique"
    /\ critique_result' =
          <<_critique_analysis(critique_input.agent, critique_input,
                               llm_available)>>
    /\ pc' = "critiqued"
    /\ UNCHANGED <<max_revisions, skip_screenshots, module_points, friction,
                   site_pages, llm_available, conversion_module,
                   critique_input, registry, declared, execution_order,
                   clock, analysis, stored, phase, cycle, ready, tasks,
                   exec_state, rev_state, rev_tasks, critique_flagged,
                   report, faults, last_exec, revise_calls>>
    /\ NoManagerChange /\ NoHistoryChange /\ NoContextChange

NextCritique == CritiqueAnalysis

SpecCritique == InitCritique /\ [][NextCritique]_vars

\* ---------------------------------------- Orchestrator.get_execution_order
\* the keys of self._agents
Registered == Range(registry)

\* graph[dep] after the loop of lines 124-128: the registered agents that
\* declare dep, in registration order
graph(dep) ==
    LET Declares(n) == dep \in declared[n]
    IN  SelectSeq(registry, Declares)

\* mutant: a dependency on an agent that is not registered is counted too
in_degree_AnyDependency(name) == Cardinality(declared[name])

\* in_degree[name] after the loop of lines 124-128: `if dep in graph`
\* leaves out dependencies on agents that are not registered
in_degree(name) == Cardinality(declared[name] \cap Registered)

\* the for loop of lines 138-141 over the neighbours of the popped agent
RECURSIVE Release(_, _)
Release(neighbors, st) ==
    IF neighbors = <<>> THEN st
    ELSE LET neighbor == Head(neighbors)
             degree == st.in_degree[neighbor] - 1
         IN  Release(Tail(neighbors),
                     [queue |-> IF degree = 0
                                THEN Append(st.queue, neighbor)
                                ELSE st.queue,
                      in_degree |->
                          [st.in_degree EXCEPT ![neighbor] = degree]])

\* the while loop of lines 134-141
RECURSIVE KahnLoop(_, _)
KahnLoop(st, order) ==
    IF st.queue = <<>> THEN order
    ELSE LET current == Head(st.queue)
         IN  KahnLoop(Release(graph(current),
                              [st EXCEPT !.queue = Tail(st.queue)]),
                      Append(order, current))

\* get_execution_order(): lines 115-144
get_execution_order ==
    LET degrees == [name \in Registered |-> in_degree(name)]
        NoneLeft(name) == degrees[name] = 0
    IN  KahnLoop([queue |-> SelectSeq(registry, NoneLeft),
                  in_degree |-> degrees], <<>>)

\* the dependency lists an agent class can declare
DeclaredSets ==
    {D \in SUBSET RegistryNames : Cardinality(D) <= MaxDeclared}

\* the agent sets register_agent can build: distinct names in any order
Registries ==
    UNION {{r \in [1..k -> RegistryNames] :
                \A i, j \in 1..k : i # j => r[i] # r[j]} :
           k \in 0..MaxRegistered}

\* get_execution_order called on any small set of registered agents with
\* any declared dependencies, registered or not, cyclic or not
InitOrder ==
    /\ InitCommon /\ pc = "order" /\ skip_screenshots = FALSE
    /\ module_points = [m \in SynthModules |-> <<>>]
    /\ friction = "none"
    /\ site_pages = <<>>
    /\ llm_available = FALSE
    /\ conversion_module = [source |-> "none", items |-> <<>>]
    /\ NoCritiqueInput
    /\ registry \in Registries
    /\ declared \in [RegistryNames -> DeclaredSets]
    /\ \A n \in RegistryNames \ Range(registry) : declared[n] = {}
    /\ execution_order = <<>>

GetExecutionOrder ==
    /\ pc = "order"
    /\ execution_order' = get_execution_order
    /\ pc' = "ordered"
    /\ UNCHANGED <<max_revisions, skip_screenshots, module_points, friction,
                   site_pages, llm_available, conversion_module,
                   critique_input, critique_result, registry, declared,
                   clock, analysis, stored, phase, cycle, ready, tasks,
                   exec_state, rev_state, rev_tasks, critique_flagged,
                   report, faults, last_exec, revise_calls>>
    /\ NoManagerChange /\ NoHistoryChange /\ NoContextChange

NextOrder == GetExecutionOrder

SpecOrder == InitOrder /\ [][NextOrder]_vars

\* ================================================================= claims
\* run() of agent a begins in this step, inside execute() or inside revise()
RunBegins(a) ==
    \/ exec_state[a] # "running" /\ exec_state'[a] = "running"
    \/ rev_state[a] # "running" /\ rev_state'[a] = "running"

\* C1: whenever an agent's run() begins, launched by execute() or by
\* revise(), every dependency it declares has a stored analysis record
\* with status COMPLETED at that moment.
C1_DependenciesCompletedAtRun ==
    [][\A a \in Agents :
          RunBegins(a) =>
              \A d \in Dependencies[a] : HasStatus(d, "COMPLETED")]_vars

\* C2: if run() raises during execute(), execute() returns a stored record
\* with status FAILED and a non-empty error list, and nothing but a
\* revision task ever stops run_audit before its report.
C2_ExecuteContainsRunFailure ==
    /\ \A a \in Agents :
          (last_exec[a] = "raised" /\ exec_state[a] = "returned") =>
              /\ stored[a]
              /\ analysis[a].status = "FAILED"
              /\ analysis[a].errors >= 1
    /\ pc = "aborted" => \E a \in Agents : rev_state[a] = "raised"

\* C2 witness: an execute() caught a raising run() and the run went through
\* all remaining phases to a report with modules of other agents
C2_Witness ==
    /\ pc = "done"
    /\ \E a \in Agents : last_exec[a] = "raised" /\ PhaseOf(a) = 3
    /\ Len(report) >= 2

\* C3: no exception raised by an agent's run(), in a phase or in a
\* revision, terminates run_audit before it returns a report.
C3_RunNeverAborted == pc # "aborted"

\* C4: run_revision_cycles runs at most max_revisions critique/revision
\* cycles, whatever the critique and revision outcomes are.
C4_CyclesBounded ==
    /\ current_cycle <= max_revisions
    /\ pc \in {"rev_critique", "rev_gather"} => cycle < max_revisions

\* C4 witness: the loop stopped at the cap with revisions still pending
C4_Witness ==
    /\ pc = "synthesis"
    /\ max_revisions >= 1
    /\ current_cycle = max_revisions
    /\ get_pending_revisions # <<>>

\* C5: after any sequence of request_revision and record_revision_result
\* calls no agent has more than max_revisions results recorded, and
\* request_revision records nothing for an agent whose budget is exhausted.
C5_ResultsWithinBudget ==
    [][/\ \A a \in Agents : Len(revision_results'[a]) <= max_revisions'
       /\ \A a \in Agents :
             ~can_request_revision(a) =>
                 revision_requests'[a] = revision_requests[a]]_vars

\* C6: for every agent, len(results) <= len(requests) <= max_revisions in
\* every state of the revision manager.
C6_ResultsRequestsBudget ==
    \A a \in Agents :
        /\ Len(revision_results[a]) <= revision_requests[a]
        /\ revision_requests[a] <= max_revisions

\* C7: no agent of a later phase begins execute() while an execute()
\* launched in an earlier phase has not returned.
C7_PhaseBarrier ==
    \A a \in Agents :
        (PhaseOf(a) >= 1 /\ exec_state[a] \in {"scheduled", "running"}) =>
            \A b \in Agents :
                exec_state[b] \in {"running", "returned"} =>
                    PhaseOf(b) <= PhaseOf(a)

\* C7 witness: a phase 4 agent runs after all nine phase 3 tasks returned
C7_Witness ==
    /\ exec_state["resource_hub"] = "running"
    /\ \A a \in Range(PhaseAgents[3]) : exec_state[a] = "returned"

\* C8: the critique agent's execute() of the next cycle does not begin
\* before every revision task of the current cycle has returned and
\* recorded its RevisionResult.
C8_RevisionBarrier ==
    exec_state["critique"] \in {"scheduled", "running"} =>
        \A a \in Range(rev_tasks) :
            /\ rev_state[a] = "returned"
            /\ Len(revision_results[a]) = rev_base[a] + 1

\* C8 witness: a second cycle's critique is called after a cycle that
\* revised two agents concurrently
C8_Witness ==
    /\ exec_state["critique"] = "scheduled"
    /\ current_cycle >= 2
    /\ Len(rev_tasks) >= 2

\* C9: in each cycle every agent the critique pass marks as not passed
\* gets exactly one RevisionRequest recorded, except an agent whose budget
\* is exhausted, which gets none.
C9_FlaggedAgentsGetOneRequest ==
    (/\ pc = "rev_critique"
     /\ exec_state["critique"] = "returned"
     /\ last_exec["critique"] = "scored")
    => \A a \in critique_flagged :
          revision_requests[a] =
              IF can_request_revision(a)
              THEN req_at_cycle[a] + 1
              ELSE req_at_cycle[a]

\* C10: an agent whose execute() ended NEEDS_REVISION has its revise()
\* invoked by run_revision_cycles when max_revisions > 0 and its budget is
\* not spent, and the run completes.
C10_NeedsRevisionIsRevised ==
    pc = "done" =>
        \A a \in Agents :
            (/\ last_exec[a] = "scored"
             /\ analysis[a].status = "NEEDS_REVISION"
             /\ max_revisions > 0
             /\ can_request_revision(a))
            => revise_calls[a] > 0

\* C11: at the end of the run, every agent that has a started_at timestamp
\* started no earlier than each of its declared dependencies completed:
\* the dependency's stored record has a completed_at, and it is not later
\* than the agent's started_at.
C11_StartedAfterDependencies ==
    pc = "done" =>
        \A a \in Agents :
            analysis[a].started_at # 0 =>
                \A d \in Dependencies[a] :
                    /\ stored[d]
                    /\ analysis[d].completed_at # 0
                    /\ analysis[a].started_at >= analysis[d].completed_at

\* C11 witness: time passed between website, positioning and top5_pages,
\* and an agent whose dependency failed never started
C11_Witness ==
    /\ pc = "done"
    /\ analysis["top5_pages"].started_at > analysis["positioning"].completed_at
    /\ analysis["positioning"].started_at > analysis["website"].completed_at
    /\ analysis["conversion"].status = "FAILED"
    /\ analysis["resource_hub"].started_at = 0

\* C12: after any call of execute() has returned -- on success, self-audit
\* failure, exception or unmet dependencies -- the store's analyses entry
\* for that agent is the record execute() returned, with its status.
C12_ExecuteResultStored ==
    \A a \in Agents : exec_state[a] = "returned" => stored[a]

\* C13: a record's status changes only PENDING -> RUNNING, RUNNING ->
\* COMPLETED, FAILED or NEEDS_REVISION, and from one of these three back
\* to RUNNING on a re-run; no record goes from COMPLETED, FAILED or
\* NEEDS_REVISION back to PENDING.
C13_StatusLifecycle ==
    [][\A a \in Agents :
          LET s == analysis[a].status
              t == analysis'[a].status
              finished == {"COMPLETED", "FAILED", "NEEDS_REVISION"}
          IN  s # t =>
                \/ s = "PENDING" /\ t = "RUNNING"
                \/ s = "RUNNING" /\ t \in finished
                \/ s \in finished /\ t = "RUNNING"]_vars

PassedSelfAudit(a) ==
    last_exec[a] = "scored" /\ analysis[a].self_audit_passed

WebsiteDependents ==
    {a \in Agents :
        \/ "website" \in Dependencies[a]
        \/ \E d \in Dependencies[a] : "website" \in Dependencies[d]}

\* the crawl of this run stored no page and the website agent's run()
\* returned normally
EmptyCrawl ==
    pc = "done" /\ pages = 0 /\ last_exec["website"] = "scored"

\* C16 as stated: if the crawl stores zero pages, the website agent's
\* self-audit fails, no agent that depends on it ever runs (they stay
\* PENDING), and the report has an empty module list.
C16_EmptyCrawlEmptyReport ==
    EmptyCrawl =>
        /\ ~analysis["website"].self_audit_passed
        /\ \A a \in WebsiteDependents :
              analysis[a].status = "PENDING" /\ analysis[a].started_at = 0
        /\ report = <<>>

\* C16 amended: if the crawl stores zero pages, the website agent's
\* self-audit fails, no agent that depends on it ever runs (they stay
\* PENDING), and the report has no module of any of them: its modules are
\* those of prompt_visibility and social_listening at most.
C16_EmptyCrawlNoDependentModule ==
    EmptyCrawl =>
        /\ ~analysis["website"].self_audit_passed
        /\ analysis["website"].status = "NEEDS_REVISION"
        /\ \A a \in WebsiteDependents :
              analysis[a].status = "PENDING" /\ analysis[a].started_at = 0
        /\ Range(report) \subseteq Agents \ WebsiteDependents
        /\ Range(report) \subseteq {"prompt_visibility", "social_listening"}

\* C16 witness: a run with an empty crawl whose report has the modules of
\* the two agents that do not depend on the website agent
C16_Witness ==
    /\ EmptyCrawl
    /\ exec_state["critique"] = "returned"
    /\ report = <<"prompt_visibility", "social_listening">>

\* C17: when no competitors are configured and discovery finds none, the
\* competitor module is the single "No competitors found" item, the
\* critique pass applies its competitor-specific check to the competitor
\* agent and records fail=True for it, and run_audit completes.
C17_NoCompetitorsFatalCritique ==
    (/\ pc = "done"
     /\ competitor_notes = "No competitors found"
     /\ last_exec["critique"] = "scored")
    => "competitor" \in critique_failed

\* C20: when run_audit_pipeline is called with skip_screenshots = true the
\* run makes no call to the screenshot collaborator: no capture is
\* attempted for any pending screenshot request in the store.
C20_SkipScreenshotsNoCapture ==
    skip_screenshots => captures = {}

\* the percentage of module m is given and is at least lo and below hi
PctIn(m, lo, hi) ==
    /\ module_points[m] # <<>>
    /\ LET sc == module_points[m][1] IN
        /\ sc.max_points > 0
        /\ sc.actual_points * 100 >= lo * sc.max_points
        /\ sc.actual_points * 100 < hi * sc.max_points

\* C18 as stated: synthesize_findings returns the 'Leaky Bucket' finding
\* whenever the positioning module scores 95% and the trust module 30%,
\* for every outcome of the other modules.
C18_LeakyBucketOnPositioning ==
    (/\ pc = "synthesized"
     /\ PctIn("positioning", 95, 96)
     /\ PctIn("trust", 30, 31))
    => friction = "The 'Leaky Bucket' Effect"

\* C18 amended: synthesize_findings returns the 'Leaky Bucket' finding
\* whenever the seo module scores at least 90% and the trust module
\* scores below 60%, for every outcome of the other modules.
C18_LeakyBucketOnSeo ==
    (/\ pc = "synthesized"
     /\ PctIn("seo", 90, 101)
     /\ PctIn("trust", 0, 60))
    => friction = "The 'Leaky Bucket' Effect"

\* C18 witness: seo at 90%, trust at 30% and a positioning score that
\* would give the Commodity Trap: the Leaky Bucket rule comes first
C18_Witness ==
    /\ pc = "synthesized"
    /\ PctIn("seo", 90, 91)
    /\ PctIn("trust", 30, 31)
    /\ PctIn("positioning", 65, 66)
    /\ friction = "The 'Leaky Bucket' Effect"

\* the number of CTAs (field "ctas") or forms (field "forms") on the pages
RECURSIVE CountOnPages(_, _)
CountOnPages(ps, field) ==
    IF ps = <<>> THEN 0
    ELSE Len(Head(ps)[field]) + CountOnPages(Tail(ps), field)

\* C19: with the text model unavailable the conversion module is
\* non-empty and its points depend on the counts only: for c CTAs and f
\* forms the CTA item has min(2*c, 20) of 20 points, the form item 10
\* points if f > 0 and 5 otherwise, and the five other items have
\* constant points.
C19_FallbackPointsFromCounts ==
    (pc = "conversion_done" /\ ~llm_available) =>
        LET c == CountOnPages(site_pages, "ctas")
            f == CountOnPages(site_pages, "forms")
            items == conversion_module.items
        IN  /\ Len(items) = 7
            /\ items[1].max_points = 20
            /\ items[1].actual_points = IF 2 * c < 20 THEN 2 * c ELSE 20
            /\ items[3].actual_points = IF f > 0 THEN 10 ELSE 5
            /\ <<items[2].actual_points, items[4].actual_points,
                 items[5].actual_points, items[6].actual_points,
                 items[7].actual_points>> = <<8, 7, 7, 5, 5>>

\* C19 witness: 8 CTAs and 2 forms on two pages give 16 and 10 points
C19_Witness ==
    /\ pc = "conversion_done"
    /\ ~llm_available
    /\ Len(site_pages) = 2
    /\ CountOnPages(site_pages, "ctas") = 8
    /\ CountOnPages(site_pages, "forms") = 2
    /\ conversion_module.items[1].actual_points = 16
    /\ conversion_module.items[3].actual_points = 10

\* C21: when the gather of a cycle's revision tasks returns with the loop
\* variable still below max_revisions - 1 and some revised agent below its
\* revision budget, run_revision_cycles goes on to another cycle; and the
\* critique pass of every later cycle reviews every dependency whose
\* status is COMPLETED when the pass returns.
C21_NextCycleReviewsAll ==
    [][ /\ ( /\ pc = "rev_gather"
             /\ pc' \notin {"rev_gather", "aborted"}
             /\ rev_tasks # <<>>
             /\ cycle + 1 < max_revisions
             /\ \E a \in Range(rev_tasks) : can_request_revision(a) )
           => pc' = "rev_loop"
        /\ ( /\ pc = "rev_critique"
             /\ cycle >= 1
             /\ exec_state["critique"] # "returned"
             /\ exec_state'["critique"] = "returned" )
           => \A d \in Dependencies["critique"] :
                 (stored'[d] /\ analysis'[d].status = "COMPLETED")
                    => d \in critique_reviewed'
      ]_vars

\* C22: when a process_revision task has returned, the agent's stored
\* analysis record holds the module score its revise() call produced, and
\* the success flag of the RevisionResult recorded last for the agent is
\* the self-audit verdict on that score.
C22_RevisedScoreStored ==
    \A a \in Agents :
        (rev_state[a] = "returned" /\ revised_score[a] # "none") =>
            /\ stored[a]
            /\ analysis[a].module_score = revised_score[a]
            /\ revision_results[a] # <<>>
            /\ revision_results[a][Len(revision_results[a])] =
                  self_audit(a, [analysis[a] EXCEPT
                                    !.module_score = revised_score[a]],
                             pages)

\* C28: when run_audit has returned, no agent's stored analysis record has
\* status RUNNING.
C28_NoRunningAtReturn ==
    pc = "done" => \A a \in Agents : ~HasStatus(a, "RUNNING")

\* C29: whenever no process_revision task is pending or in progress, every
\* agent's revision_count equals the number of RevisionResults the
\* manager holds for it.
C29_RevisionCountMatchesResults ==
    (\A b \in Agents : rev_state[b] \in {"idle", "returned"}) =>
        \A a \in Agents :
            analysis[a].revision_count = Len(revision_results[a])

\* C30: whenever neither execute() nor revise() of an agent is in progress,
\* its stored record is COMPLETED exactly when self_audit_passed is true
\* and a module score is present.
C30_CompletedIffAuditedScore ==
    \A a \in Agents :
        (stored[a] /\ exec_state[a] # "running"
                   /\ rev_state[a] \notin {"scheduled", "running"}) =>
            (analysis[a].status = "COMPLETED" <=>
                (analysis[a].self_audit_passed
                    /\ analysis[a].module_score # "none"))

\* C24: when a critique pass has returned without an exception, every
\* dependency of the critique agent whose status is COMPLETED has been
\* reviewed by that pass, whatever the status of the other dependencies.
C24_CompletedDependenciesReviewed ==
    (exec_state["critique"] = "returned"
        /\ last_exec["critique"] \in {"scored", "unmet"}) =>
        \A d \in Dependencies["critique"] :
            HasStatus(d, "COMPLETED") => d \in critique_reviewed

\* the agents a has a dependency path to
RECURSIVE Upstream(_)
Upstream(a) ==
    Dependencies[a] \cup UNION {Upstream(d) : d \in Dependencies[a]}

\* some agent on a dependency path of a has ended FAILED
FailedUpstream(a) == \E f \in Upstream(a) : HasStatus(f, "FAILED")

\* no agent on a dependency path of a has ended FAILED, and none was held
\* back at NEEDS_REVISION by its self-audit
ClearUpstream(a) ==
    \A u \in Upstream(a) :
        ~HasStatus(u, "FAILED") /\ ~HasStatus(u, "NEEDS_REVISION")

\* run_phase(phase) ends in this step
PhaseEnds ==
    /\ pc \in {"run_phase", "gather"}
    /\ pc' \notin {"run_phase", "gather"} \/ phase' # phase

Key(collection, k) == <<collection, k>>
Field(name) == <<name, "">>

\* mutant: the positioning agent appends the segments it detects as well
RunFields_PositioningSegments(a) ==
    CASE a = "website"          -> {Key("pages", "*"), Key("social_links", "*"),
                                    Field("last_updated")}
      [] a = "deep_research"    -> {Field("competitors")}
      [] a = "competitor"       -> {Field("competitors")}
      [] a = "social"           -> {Key("social_links", "*")}
      [] a = "positioning"      -> {Field("identified_segments")}
      [] a = "segmentation"     -> {Field("identified_segments"),
                                    Field("primary_segment")}
      [] a = "resource_hub"     -> {Field("landing_pages"),
                                    Field("gated_content")}
      [] a = "top5_pages"       -> {Field("critical_pages"),
                                    Key("screenshots", "*"),
                                    Field("last_updated")}
      [] a = "social_listening" -> {Key("screenshots", "*"),
                                    Field("last_updated")}
      [] OTHER                  -> {}

\* what run() of agent a writes in the ContextStore: add_page and
\* add_screenshot also set last_updated
RunFields(a) ==
    CASE a = "website"          -> {Key("pages", "*"), Key("social_links", "*"),
                                    Field("last_updated")}
      [] a = "deep_research"    -> {Field("competitors")}
      [] a = "competitor"       -> {Field("competitors")}
      [] a = "social"           -> {Key("social_links", "*")}
      [] a = "segmentation"     -> {Field("identified_segments"),
                                    Field("primary_segment")}
      [] a = "resource_hub"     -> {Field("landing_pages"),
                                    Field("gated_content")}
      [] a = "top5_pages"       -> {Field("critical_pages"),
                                    Key("screenshots", "*"),
                                    Field("last_updated")}
      [] a = "social_listening" -> {Key("screenshots", "*"),
                                    Field("last_updated")}
      [] OTHER                  -> {}

\* what execute() of agent a writes: set_analysis stores the record under
\* the agent's name and sets last_updated, then run() writes
ExecuteFields(a) ==
    {Key("analyses", a), Field("last_updated")} \cup RunFields(a)

\* the tasks of the gather being awaited, each with what it writes
ConcurrentWrites ==
    IF pc = "gather"
    THEN [a \in Range(tasks) |-> ExecuteFields(a)]
    ELSE IF pc = "rev_gather"
    THEN [a \in Range(rev_tasks) |-> RunFields(a)]
    ELSE [a \in {} |-> {}]

SpecializedFailure(inp) ==
    /\ inp.agent \in {"positioning", "seo", "competitor", "top5_pages"}
    /\ ~inp.raw_data_ok

\* C23: the critique of a module score yields passed exactly when it lists
\* at most 2 issues and found no fatal failure, the failure of any agent's
\* specialized check being fatal (as are a short analysis text and too few
\* score items, for which the code clears the flag).
C23_PassedIffFewIssuesNoSpecialized ==
    (pc = "critiqued" /\ critique_input.has_score) =>
        (critique_result[1].passed <=>
            /\ Len(critique_result[1].issues) <= 2
            /\ critique_input.text_len >= min_analysis_length
            /\ critique_input.items >= min_score_items
            /\ ~SpecializedFailure(critique_input))

\* C23 (amended): the critique of a module score yields passed exactly
\* when it lists at most 2 issues and found no fatal failure, the fatal
\* ones being a short or missing analysis text, too few score items, and
\* the competitor agent's specialized check; a failed specialized check of
\* any other agent is one more issue.
C23_PassedIffFewIssuesNoFatal ==
    (pc = "critiqued" /\ critique_input.has_score) =>
        (critique_result[1].passed <=>
            /\ Len(critique_result[1].issues) <= 2
            /\ critique_input.text_len >= min_analysis_length
            /\ critique_input.items >= min_score_items
            /\ ~(critique_input.agent = "competitor"
                    /\ ~critique_input.raw_data_ok))

\* C23 witness: a positioning score that fails its specialized check and
\* one generic check passes with two issues
C23_Witness ==
    /\ pc = "critiqued"
    /\ critique_input.agent = "positioning"
    /\ ~critique_input.raw_data_ok
    /\ Len(critique_result[1].issues) = 2
    /\ critique_result[1].passed

\* the registered dependencies of a registered agent
RegisteredDependencies(a) == declared[a] \cap Registered

\* the registered agents reachable from the set S along dependencies
RECURSIVE DependencyClosure(_)
DependencyClosure(S) ==
    LET T == S \cup UNION {RegisteredDependencies(x) : x \in S}
    IN  IF T = S THEN S ELSE DependencyClosure(T)

\* the registered agents a depends on, directly or through others
Ancestors(a) == DependencyClosure(RegisteredDependencies(a))

\* a is on a dependency cycle, or depends on an agent that is
OnOrAfterCycle(a) ==
    \E c \in Ancestors(a) \cup {a} : c \in Ancestors(c)

\* C25: the list get_execution_order returns has no repeats, every agent
\* in it comes after all of its registered dependencies, it holds every
\* registered agent when no agent is on a dependency cycle, and in general
\* it leaves out exactly the agents on or downstream of a cycle.
C25_ExecutionOrderTopological ==
    pc = "ordered" =>
        LET order == execution_order
            Pos == 1..Len(order)
        IN  /\ \A i, j \in Pos : i # j => order[i] # order[j]
            /\ \A i \in Pos :
                  \A d \in RegisteredDependencies(order[i]) :
                      \E j \in 1..(i - 1) : order[j] = d
            /\ (\A a \in Registered : a \notin Ancestors(a))
                  => Range(order) = Registered
            /\ Range(order) = {a \in Registered : ~OnOrAfterCycle(a)}

\* C25 witness: three agents registered, one depends on itself or on a
\* cycle and is left out, one is downstream of it without being on a
\* cycle and is left out too, and one is returned
C25_Witness ==
    /\ pc = "ordered"
    /\ Len(registry) = 3
    /\ Len(execution_order) = 1
    /\ \E a \in Registered :
          a \notin Ancestors(a) /\ a \notin Range(execution_order)

====
